---- MODULE Spec2Model ----
(***************************************************************************)
(* Riddle game (src/index.tsx): the App component's state, its handlers    *)
(* fetchRiddle / handleGuessSubmit / handleSpeak, the two generateContent  *)
(* calls in flight and the speechSynthesis queue.                          *)
(*                                                                         *)
(* The specifications share the handlers:                                   *)
(*   Spec      the application as rendered: an intent reaches its handler  *)
(*             only when the element that raises it is rendered and not    *)
(*             disabled;                                                   *)
(*   SpecCtl   the controller alone: the fetch and guess intents may arrive *)
(*             in any state, so the handlers' own guards are what decides; *)
(*   SpecAll   as SpecCtl with the speech intents and events, one language; *)
(*   SpecHist  long runs of fetches (new riddle / category change), for    *)
(*             the eviction behaviour of the history;                      *)
(*   SpecLive  Spec with the service calls eventually answered.            *)
(***************************************************************************)
EXTENDS Integers, Sequences, FiniteSets, TLC

\* ------------------------------------------------------------------ bounds
MaxFetched == 2
MaxFetchedHist == 11
MaxVerifyCalls == 2
MaxFetchedCtl == 1
MaxVerifyCallsCtl == 1
MaxUtterances == 2
MaxUtterancesAll == 1

\* --------------------------------------------------------------- constants
HistoryKeep == 9
HistoryMax == HistoryKeep + 1

NULL == "<null>"
Absent == "<undefined>"

Languages == {"de", "ru"}
Categories == {"lustig", "minecraft"}

RiddleTexts == {"r1", "r2"}
AnswerTexts == {"a1", "a2"}

\* guess texts as character sequences: "", " ", "a", " a "
GuessTexts == {<<>>, <<" ">>, <<"a">>, <<" ", "a", " ">>}

\* ------------------------------------------------------------ pure helpers
RECURSIVE TrimStart(_)
TrimStart(s) ==
  IF s # <<>> /\ Head(s) = " " THEN TrimStart(Tail(s)) ELSE s

RECURSIVE TrimEnd(_)
TrimEnd(s) ==
  IF s # <<>> /\ s[Len(s)] = " " THEN TrimEnd(SubSeq(s, 1, Len(s) - 1)) ELSE s

\* String.prototype.trim
Trim(s) == TrimEnd(TrimStart(s))

\* JavaScript truthiness of a string-or-missing value
TruthyStr(v) == v # NULL /\ v # Absent /\ v # ""

\* JavaScript truthiness of a JSON value
\* (a value is its JSON type and its literal)
TruthyJson(j) ==
  CASE j.t = "bool" -> j.v = "true"
    [] j.t = "string" -> j.v # ""
    [] j.t = "number" -> j.v # "0"
    [] OTHER -> FALSE

\* Array.prototype.slice(-n)
SliceLast(h, n) ==
  IF Len(h) <= n THEN h ELSE SubSeq(h, Len(h) - n + 1, Len(h))

\* mutant: slice(-10), one entry too many kept
PushHistoryKeepsTen(h, r) == Append(SliceLast(h, HistoryKeep + 1), r)

\* [...history.slice(-9), raetsel]
PushHistory(h, r) == Append(SliceLast(h, HistoryKeep), r)

\* translations[lang].fetchRiddlePrompt(categoryDescription, historyString):
\* historyString is the quoted entries joined with ", "; the exclusion clause
\* is appended iff that string is non-empty.
HistoryString(h) == [i \in 1..Len(h) |-> <<"\"", h[i], "\"">>]

\* mutant: the exclusion clause is never appended
FetchRiddlePromptNoExclusion(lang, cat, hs) ==
  [lang |-> lang, categoryDescription |-> cat,
   exclusion |-> <<>>, hasExclusion |-> FALSE]

FetchRiddlePrompt(lang, cat, hs) ==
  [lang |-> lang, categoryDescription |-> cat,
   exclusion |-> IF hs # <<>> THEN hs ELSE <<>>,
   hasExclusion |-> hs # <<>>]

CorrectFeedback(lang) ==
  [message |-> [key |-> "correctGuess", lang |-> lang, answer |-> NULL],
   type |-> "success"]

WrongFeedback(lang, a) ==
  [message |-> [key |-> "wrongGuess", lang |-> lang, answer |-> a],
   type |-> "error"]

VerifyErrorFeedback(lang) ==
  [message |-> [key |-> "verifyError", lang |-> lang, answer |-> NULL],
   type |-> "error"]

ErrorMessage(lang) == [key |-> "error", lang |-> lang]

\* the null of useState<{message, type} | null> and of useState<string | null>,
\* as records so that they compare with the values that replace them
NoFeedback == [message |-> [key |-> NULL, lang |-> NULL, answer |-> NULL], type |-> NULL]
NoError == [key |-> NULL, lang |-> NULL]

\* ------------------------------------------------- service response domains
\* generateContent for fetchRiddle: rejects, or resolves with a text that is
\* not JSON, is the JSON null, or is an object with/without the two fields.
FetchResponses ==
  {[outcome |-> "reject", raetsel |-> Absent, antwort |-> Absent],
   [outcome |-> "badjson", raetsel |-> Absent, antwort |-> Absent],
   [outcome |-> "null", raetsel |-> Absent, antwort |-> Absent]}
  \cup
  [outcome : {"object"},
   raetsel : RiddleTexts \cup {Absent, ""},
   antwort : AnswerTexts \cup {Absent, ""}]

Undefined == [t |-> "undefined", v |-> "undefined"]

IsCorrectValues ==
  {Undefined,
   [t |-> "bool", v |-> "true"],
   [t |-> "bool", v |-> "false"],
   [t |-> "string", v |-> "yes"],
   [t |-> "string", v |-> ""],
   [t |-> "number", v |-> "0"],
   [t |-> "number", v |-> "1"],
   [t |-> "null", v |-> "null"]}

VerifyResponses ==
  {[outcome |-> "reject", is_correct |-> Undefined],
   [outcome |-> "badjson", is_correct |-> Undefined],
   [outcome |-> "null", is_correct |-> Undefined]}
  \cup
  [outcome : {"object"}, is_correct : IsCorrectValues]

\* ------------------------------------------------------------------- state
VARIABLES
  riddle, answer, userGuess, feedback, isLoading, isVerifying, error,
  selectedCategory, language, isSpeaking,
  riddleHistoryRef, isFetchingRef, isInitialMount,
  fetchCalls,      \* generateContent calls of fetchRiddle awaiting a response
  verifyCalls,     \* generateContent calls of handleGuessSubmit awaiting one
  synth,           \* window.speechSynthesis: queue of utterances
  synthEvents,     \* end/error events of cancelled utterances not yet fired
  fetched,         \* history variable: riddle texts fetched since last clear
  feedbackStale,   \* history variable: feedback stored by a call that a
                   \* later fetch had overtaken
  last             \* history variable: what the latest step did

vars ==
  <<riddle, answer, userGuess, feedback, isLoading, isVerifying, error,
    selectedCategory, language, isSpeaking,
    riddleHistoryRef, isFetchingRef, isInitialMount,
    fetchCalls, verifyCalls, synth, synthEvents,
    fetched, feedbackStale, last>>

Init ==
  /\ riddle = NULL
  /\ answer = NULL
  /\ userGuess = <<>>
  /\ feedback = NoFeedback
  /\ isLoading = TRUE
  /\ isVerifying = FALSE
  /\ error = NoError
  /\ selectedCategory = "lustig"
  /\ language = "de"
  /\ isSpeaking = FALSE
  /\ riddleHistoryRef = <<>>
  /\ isFetchingRef = FALSE
  /\ isInitialMount = TRUE
  /\ fetchCalls = <<>>
  /\ verifyCalls = <<>>
  /\ synth = <<>>
  /\ synthEvents = 0
  /\ fetched = <<>>
  /\ feedbackStale = FALSE
  /\ last = "init"

\* ------------------------------------------------- what the render enables
\* the session states of the state machine, read off the flags the render
\* tests (isLoading, error, riddle, isVerifying, feedback)
SessionState ==
  IF isLoading THEN "Loading"
  ELSE IF error # NoError THEN "Failed"
  ELSE IF ~TruthyStr(riddle) THEN "Idle"
  ELSE IF isVerifying THEN "Verifying"
  ELSE IF feedback # NoFeedback THEN "Resolved"
  ELSE "Presented"

\* {!isLoading && !error && riddle && ( ... )}
RiddleBlockRendered == ~isLoading /\ error = NoError /\ TruthyStr(riddle)

\* mutant: the radios are never disabled
RadiosEnabledAlways == TRUE

\* language and category radios: disabled={isLoading}
RadiosEnabled == ~isLoading

\* new-riddle button: inside the riddle block, disabled={isLoading}
NewRiddleEnabled == RiddleBlockRendered /\ ~isLoading

\* guess input: disabled={!!feedback || isVerifying}
GuessInputEnabled == RiddleBlockRendered /\ ~(feedback # NoFeedback \/ isVerifying)

\* mutant: the submit button does not look at feedback
SubmitEnabledWithFeedback ==
  RiddleBlockRendered /\ ~(Trim(userGuess) = <<>> \/ isVerifying)

\* mutant: the submit button does not look at isVerifying
SubmitEnabledWhileVerifying ==
  RiddleBlockRendered /\ ~(Trim(userGuess) = <<>> \/ feedback # NoFeedback)

\* submit button: disabled={!userGuess.trim() || !!feedback || isVerifying}
SubmitEnabled ==
  RiddleBlockRendered /\ ~(Trim(userGuess) = <<>> \/ feedback # NoFeedback \/ isVerifying)

\* speak button: inside the riddle block, disabled={isSpeaking}
SpeakEnabled == RiddleBlockRendered /\ ~isSpeaking

\* ------------------------------------------------------------ speech engine
\* window.speechSynthesis.speaking.  With an utterance queued whose start
\* event has not fired yet the value depends on the browser (Chromium: true
\* as soon as the queue has a head; W3C text/Gecko: only once it has begun).
SynthSpeaking ==
  IF synth = <<>> THEN {FALSE}
  ELSE IF Head(synth) = "speaking" THEN {TRUE}
  ELSE {TRUE, FALSE}

\* ---------------------------------------------------------------- handlers
\* mutant: no in-flight guard
FetchSuppressedNever == FALSE

\* if (isFetchingRef.current) return;
FetchSuppressed == isFetchingRef

\* mutant: the guess is tested without trim()
GuessRejectedUntrimmed == userGuess = <<>> \/ ~TruthyStr(answer)

\* if (!userGuess.trim() || !answer) return;
GuessRejected == Trim(userGuess) = <<>> \/ ~TruthyStr(answer)

\* mutant: the riddle on display is not cleared when a fetch starts
RiddleKeptWhileLoading == riddle

\* setRiddle(null) before the request
RiddleWhileLoading == NULL

\* fetchRiddle(), called with the closure's language and category; hist/log
\* are the history (and its history variable) as the caller left them.
FetchRiddle(lang, cat, hist, log) ==
  /\ fetched' = log
  /\ IF FetchSuppressed
     THEN /\ riddleHistoryRef' = hist
          /\ last' = "fetchDropped"
          /\ UNCHANGED <<isFetchingRef, synth, synthEvents, isSpeaking, isLoading,
                         error, feedback, userGuess, riddle, fetchCalls,
                         verifyCalls, feedbackStale>>
     ELSE /\ isFetchingRef' = TRUE
          /\ \E speaking \in SynthSpeaking :
               IF speaking
               THEN /\ synth' = <<>>
                    /\ synthEvents' = synthEvents + Len(synth)
                    /\ isSpeaking' = FALSE
               ELSE UNCHANGED <<synth, synthEvents, isSpeaking>>
          /\ isLoading' = TRUE
          /\ error' = NoError
          /\ feedback' = NoFeedback
          /\ userGuess' = <<>>
          /\ riddle' = RiddleWhileLoading
          /\ riddleHistoryRef' = hist
          /\ fetchCalls' =
               Append(fetchCalls,
                      [lang |-> lang,
                       prompt |-> FetchRiddlePrompt(lang, cat, HistoryString(hist))])
          /\ verifyCalls' =
               [i \in DOMAIN verifyCalls |-> [verifyCalls[i] EXCEPT !.stale = TRUE]]
          /\ feedbackStale' = FALSE
          /\ last' = "fetchIssued"

\* useEffect([language, selectedCategory]) on the first render
MountEffect ==
  /\ isInitialMount
  /\ isInitialMount' = FALSE
  /\ FetchRiddle(language, selectedCategory, riddleHistoryRef, fetched)
  /\ UNCHANGED <<answer, isVerifying, selectedCategory, language>>

\* onClick={() => fetchRiddle()}
RequestNewRiddle ==
  /\ ~isInitialMount
  /\ FetchRiddle(language, selectedCategory, riddleHistoryRef, fetched)
  /\ UNCHANGED <<answer, isVerifying, selectedCategory, language, isInitialMount>>

\* setLanguage(l), then the effect of the re-render: clear history, fetchRiddle
SetLanguage(l) ==
  /\ ~isInitialMount
  /\ l # language
  /\ language' = l
  /\ FetchRiddle(l, selectedCategory, <<>>, <<>>)
  /\ UNCHANGED <<answer, isVerifying, selectedCategory, isInitialMount>>

\* setSelectedCategory(c), then the effect of the re-render
SetCategory(c) ==
  /\ ~isInitialMount
  /\ c # selectedCategory
  /\ selectedCategory' = c
  /\ FetchRiddle(language, c, <<>>, <<>>)
  /\ UNCHANGED <<answer, isVerifying, language, isInitialMount>>

\* mutant: only the riddle field is tested
FetchOkRiddleOnly(resp) == resp.outcome = "object" /\ TruthyStr(resp.raetsel)

\* fetchRiddle's test of the parsed response
FetchOk(resp) ==
  resp.outcome = "object" /\ TruthyStr(resp.raetsel) /\ TruthyStr(resp.antwort)

\* mutant: setIsLoading(false) is missing from the finally block
LoadingKeptAfterFetch == isLoading

\* finally { setIsLoading(false); ... }
LoadingAfterFetch == FALSE

\* mutant: the catch block also empties the history
FetchSettleFailureClearsHistory(resp) ==
  /\ fetchCalls # <<>>
  /\ fetchCalls' = Tail(fetchCalls)
  /\ IF FetchOk(resp)
     THEN /\ riddle' = resp.raetsel
          /\ answer' = resp.antwort
          /\ riddleHistoryRef' = PushHistory(riddleHistoryRef, resp.raetsel)
          /\ fetched' = Append(fetched, resp.raetsel)
          /\ last' = "fetchOk"
          /\ UNCHANGED error
     ELSE /\ error' = ErrorMessage(Head(fetchCalls).lang)
          /\ last' = "fetchFailed"
          /\ riddleHistoryRef' = <<>>
          /\ UNCHANGED <<riddle, answer, fetched>>
  /\ isLoading' = LoadingAfterFetch
  /\ isFetchingRef' = FALSE
  /\ UNCHANGED <<userGuess, feedback, isVerifying, selectedCategory, language,
                 isSpeaking, isInitialMount, verifyCalls, synth, synthEvents,
                 feedbackStale>>

\* the awaited generateContent of fetchRiddle settles with resp: the rest of
\* the try block, catch and finally
FetchSettle(resp) ==
  /\ fetchCalls # <<>>
  /\ fetchCalls' = Tail(fetchCalls)
  /\ IF FetchOk(resp)
     THEN /\ riddle' = resp.raetsel
          /\ answer' = resp.antwort
          /\ riddleHistoryRef' = PushHistory(riddleHistoryRef, resp.raetsel)
          /\ fetched' = Append(fetched, resp.raetsel)
          /\ last' = "fetchOk"
          /\ UNCHANGED error
     ELSE /\ error' = ErrorMessage(Head(fetchCalls).lang)
          /\ last' = "fetchFailed"
          /\ UNCHANGED <<riddle, answer, riddleHistoryRef, fetched>>
  /\ isLoading' = LoadingAfterFetch
  /\ isFetchingRef' = FALSE
  /\ UNCHANGED <<userGuess, feedback, isVerifying, selectedCategory, language,
                 isSpeaking, isInitialMount, verifyCalls, synth, synthEvents,
                 feedbackStale>>

\* onChange={(e) => setUserGuess(e.target.value)}
SetUserGuess(t) ==
  /\ ~isInitialMount
  /\ t # userGuess
  /\ userGuess' = t
  /\ last' = "typed"
  /\ UNCHANGED <<riddle, answer, feedback, isLoading, isVerifying, error,
                 selectedCategory, language, isSpeaking, riddleHistoryRef,
                 isFetchingRef, isInitialMount, fetchCalls, verifyCalls, synth,
                 synthEvents, fetched, feedbackStale>>

\* handleGuessSubmit up to its await
HandleGuessSubmit ==
  /\ ~isInitialMount
  /\ IF GuessRejected
     THEN /\ last' = "guessRejected"
          /\ UNCHANGED <<isVerifying, feedback, verifyCalls, feedbackStale>>
     ELSE /\ isVerifying' = TRUE
          /\ feedback' = NoFeedback
          /\ feedbackStale' = FALSE
          /\ verifyCalls' =
               Append(verifyCalls,
                      [lang |-> language, answer |-> answer, stale |-> FALSE])
          /\ last' = "verifyIssued"
  /\ UNCHANGED <<riddle, answer, userGuess, isLoading, error, selectedCategory,
                 language, isSpeaking, riddleHistoryRef, isFetchingRef,
                 isInitialMount, fetchCalls, synth, synthEvents, fetched>>

\* mutant: the two branches of the verdict test are swapped
VerifyFeedbackInverted(call, resp) ==
  IF resp.outcome = "object"
  THEN IF TruthyJson(resp.is_correct)
       THEN WrongFeedback(call.lang, call.answer)
       ELSE CorrectFeedback(call.lang)
  ELSE VerifyErrorFeedback(call.lang)

\* mutant: the catch block stores the wrong-answer message
VerifyFeedbackErrorAsWrong(call, resp) ==
  IF resp.outcome = "object" /\ TruthyJson(resp.is_correct)
  THEN CorrectFeedback(call.lang)
  ELSE WrongFeedback(call.lang, call.answer)

\* feedback stored by handleGuessSubmit once its generateContent settled
VerifyFeedback(call, resp) ==
  IF resp.outcome = "object"
  THEN IF TruthyJson(resp.is_correct)
       THEN CorrectFeedback(call.lang)
       ELSE WrongFeedback(call.lang, call.answer)
  ELSE VerifyErrorFeedback(call.lang)

\* the awaited generateContent of call i settles with resp
VerifySettle(i, resp) ==
  /\ i \in DOMAIN verifyCalls
  /\ feedback' = VerifyFeedback(verifyCalls[i], resp)
  /\ feedbackStale' = verifyCalls[i].stale
  /\ isVerifying' = FALSE
  /\ verifyCalls' = [j \in 1..(Len(verifyCalls) - 1) |->
                       IF j < i THEN verifyCalls[j] ELSE verifyCalls[j + 1]]
  /\ last' = IF resp.outcome = "object" THEN "verifyOk" ELSE "verifyError"
  /\ UNCHANGED <<riddle, answer, userGuess, isLoading, error, selectedCategory,
                 language, isSpeaking, riddleHistoryRef, isFetchingRef,
                 isInitialMount, fetchCalls, synth, synthEvents, fetched>>

\* handleSpeak
HandleSpeak ==
  /\ ~isInitialMount
  /\ IF ~TruthyStr(riddle)
     THEN /\ last' = "speakIgnored"
          /\ UNCHANGED <<synth, synthEvents, isSpeaking>>
     ELSE IF isSpeaking
     THEN /\ synth' = <<>>
          /\ synthEvents' = synthEvents + Len(synth)
          /\ isSpeaking' = FALSE
          /\ last' = "speakStopped"
     ELSE /\ synth' = Append(synth, "pending")
          /\ last' = "speakQueued"
          /\ UNCHANGED <<synthEvents, isSpeaking>>
  /\ UNCHANGED <<riddle, answer, userGuess, feedback, isLoading, isVerifying,
                 error, selectedCategory, language, riddleHistoryRef,
                 isFetchingRef, isInitialMount, fetchCalls, verifyCalls, fetched,
                 feedbackStale>>

SynthFrame ==
  UNCHANGED <<riddle, answer, userGuess, feedback, isLoading, isVerifying,
              error, selectedCategory, language, riddleHistoryRef,
              isFetchingRef, isInitialMount, fetchCalls, verifyCalls, fetched,
              feedbackStale>>

\* utterance.onstart
SynthStart ==
  /\ synth # <<>>
  /\ Head(synth) = "pending"
  /\ synth' = <<"speaking">> \o Tail(synth)
  /\ isSpeaking' = TRUE
  /\ last' = "speechStart"
  /\ UNCHANGED synthEvents
  /\ SynthFrame

\* utterance.onend
SynthEnd ==
  /\ synth # <<>>
  /\ Head(synth) = "speaking"
  /\ synth' = Tail(synth)
  /\ isSpeaking' = FALSE
  /\ last' = "speechEnd"
  /\ UNCHANGED synthEvents
  /\ SynthFrame

\* utterance.onerror
SynthError ==
  /\ synth # <<>>
  /\ synth' = Tail(synth)
  /\ isSpeaking' = FALSE
  /\ last' = "speechError"
  /\ UNCHANGED synthEvents
  /\ SynthFrame

\* onend/onerror of an utterance removed by speechSynthesis.cancel()
SynthCancelled ==
  /\ synthEvents > 0
  /\ synthEvents' = synthEvents - 1
  /\ isSpeaking' = FALSE
  /\ last' = "speechCancelled"
  /\ UNCHANGED synth
  /\ SynthFrame

\* ------------------------------------------------ intents through the render
\* (Spec: an intent is raised by an element that is rendered and enabled)
ClickNewRiddle == NewRiddleEnabled /\ RequestNewRiddle

SelectLanguage == RadiosEnabled /\ \E l \in Languages : SetLanguage(l)

SelectCategory == RadiosEnabled /\ \E c \in Categories : SetCategory(c)

TypeGuess == GuessInputEnabled /\ \E t \in GuessTexts : SetUserGuess(t)

SubmitGuess ==
  SubmitEnabled /\ Len(verifyCalls) < MaxVerifyCalls /\ HandleGuessSubmit

ClickSpeak ==
  SpeakEnabled /\ Len(synth) + synthEvents < MaxUtterances /\ HandleSpeak

\* the service answers the outstanding fetch; n bounds the history variable
FetchReturnsWithin(n) ==
  \E resp \in FetchResponses :
    /\ FetchOk(resp) => Len(fetched) < n
    /\ FetchSettle(resp)

FetchReturns == FetchReturnsWithin(MaxFetched)

VerifyReturns ==
  \E i \in DOMAIN verifyCalls : \E resp \in VerifyResponses : VerifySettle(i, resp)

\* ---------------------------------------------------------- specifications
Next ==
  \/ MountEffect
  \/ ClickNewRiddle
  \/ SelectLanguage
  \/ SelectCategory
  \/ FetchReturns
  \/ TypeGuess
  \/ SubmitGuess
  \/ VerifyReturns
  \/ ClickSpeak
  \/ SynthStart
  \/ SynthEnd
  \/ SynthError
  \/ SynthCancelled

Spec == Init /\ [][Next]_vars

\* the application under the assumption that the mount effect runs and that
\* every service call eventually returns or raises
SpecLive ==
  /\ Init
  /\ [][Next]_vars
  /\ WF_vars(MountEffect)
  /\ WF_vars(FetchReturns)
  /\ WF_vars(VerifyReturns)

\* ------------------------------------------ intents without the render (SpecCtl)
IntentNewRiddle == RequestNewRiddle

IntentLanguage == \E l \in Languages : SetLanguage(l)

IntentCategory == \E c \in Categories : SetCategory(c)

IntentGuessText == \E t \in GuessTexts : SetUserGuess(t)

IntentSubmitGuess == Len(verifyCalls) < MaxVerifyCallsCtl /\ HandleGuessSubmit

CtlFetchReturns == FetchReturnsWithin(MaxFetchedCtl)

NextCtl ==
  \/ MountEffect
  \/ IntentNewRiddle
  \/ IntentLanguage
  \/ IntentCategory
  \/ CtlFetchReturns
  \/ IntentGuessText
  \/ IntentSubmitGuess
  \/ VerifyReturns

SpecCtl == Init /\ [][NextCtl]_vars

\* --------------------------------- every intent without the render (SpecAll)
\* (two guess texts are enough here: an empty one and one that is submitted)
IntentShortGuessText == \E t \in {<<>>, <<"a">>} : SetUserGuess(t)

IntentSpeech == Len(synth) + synthEvents < MaxUtterancesAll /\ HandleSpeak

NextAll ==
  \/ MountEffect
  \/ IntentNewRiddle
  \/ IntentCategory
  \/ CtlFetchReturns
  \/ IntentShortGuessText
  \/ IntentSubmitGuess
  \/ VerifyReturns
  \/ IntentSpeech
  \/ SynthStart
  \/ SynthEnd
  \/ SynthError
  \/ SynthCancelled

SpecAll == Init /\ [][NextAll]_vars

\* ------------------------------------------------- long runs of fetches (SpecHist)
HistFetchReturns == FetchReturnsWithin(MaxFetchedHist)

NextHist ==
  \/ MountEffect
  \/ ClickNewRiddle
  \/ SelectCategory
  \/ HistFetchReturns

SpecHist == Init /\ [][NextHist]_vars

\* ------------------------------------------------------------------ claims

\* C1: a verify-guess call that settles after a newer fetch was issued has
\* its result discarded: feedback on display was never stored by a call
\* that a fetch had overtaken.
C1_StaleVerifyDiscarded == feedback # NoFeedback => ~feedbackStale

\* C2: with N successful fetches since the history was last cleared, the
\* history has at most 10 entries and is the last min(10, N) fetched riddle
\* texts in arrival order.
C2_HistoryIsLastTen ==
  LET n == Len(fetched)
      k == IF n < HistoryMax THEN n ELSE HistoryMax
  IN /\ Len(riddleHistoryRef) <= HistoryMax
     /\ riddleHistoryRef = [i \in 1..k |-> fetched[n - k + i]]

\* eviction has happened: more than 10 fetches arrived since the last clear
C2_Witness ==
  /\ last = "fetchOk"
  /\ Len(fetched) > HistoryMax
  /\ Len(riddleHistoryRef) = HistoryMax

\* C3: the history holds the text of the riddle on display at most once.
C3_CurrentRiddleOnceInHistory ==
  TruthyStr(riddle) =>
    Cardinality({i \in DOMAIN riddleHistoryRef : riddleHistoryRef[i] = riddle}) <= 1

\* C4: at most one verify-guess call is in flight, the verifying flag is up
\* while it is, and a call is only ever issued from a state with no call in
\* flight, the flag down and no feedback (one transition into Verifying).
C4_SingleVerifyInFlight ==
  /\ [](Len(verifyCalls) <= 1 /\ (verifyCalls # <<>> => isVerifying))
  /\ [][Len(verifyCalls') > Len(verifyCalls) =>
          verifyCalls = <<>> /\ ~isVerifying /\ feedback = NoFeedback]_vars

\* a second submission is what the user would try: the form is on display
\* with a non-blank guess while the first call is still out
C4_Witness ==
  /\ Len(verifyCalls) = 1
  /\ ~verifyCalls[1].stale
  /\ RiddleBlockRendered
  /\ Trim(userGuess) # <<>>
  /\ ~SubmitEnabled

C6_SingleFetchInFlight ==
  /\ [](Len(fetchCalls) <= 1 /\ (isFetchingRef <=> fetchCalls # <<>>))
  /\ [][(fetchCalls # <<>> /\ (RequestNewRiddle \/ IntentLanguage \/ IntentCategory)) =>
          fetchCalls' = fetchCalls /\ isFetchingRef']_vars
  /\ [][(\E resp \in FetchResponses : FetchSettle(resp)) =>
          fetchCalls' = <<>> /\ ~isFetchingRef']_vars

\* a request arrived while a fetch was out and was dropped
C6_Witness == last = "fetchDropped" /\ Len(fetchCalls) = 1 /\ isFetchingRef

\* C7: in Failed neither a riddle text nor an answer is stored.
C7_FailedStoresNothing ==
  SessionState = "Failed" => riddle = NULL /\ answer = NULL

\* C8: in Failed the new-riddle intent is available, guess submission and
\* speech are not.
C8_RetryAvailableInFailed ==
  SessionState = "Failed" =>
    NewRiddleEnabled /\ ~SubmitEnabled /\ ~GuessInputEnabled /\ ~SpeakEnabled

\* C9: a verify-guess call that raises stores the could-not-verify feedback
\* (outcome Incorrect), clears isVerifying and leaves the fetch error and the
\* loading flag alone; from Verifying the session is then Resolved, not
\* Failed, with the new-riddle button enabled and the fetch guard down.
C9_VerifyErrorRecovered ==
  [][\A i \in DOMAIN verifyCalls : \A resp \in VerifyResponses :
       (VerifySettle(i, resp) /\ resp.outcome # "object") =>
         /\ feedback'.message.key = "verifyError"
         /\ feedback'.message.answer = NULL
         /\ feedback'.type = "error"
         /\ ~isVerifying'
         /\ error' = error
         /\ isLoading' = isLoading
         /\ SessionState = "Verifying" =>
              SessionState' = "Resolved" /\ NewRiddleEnabled' /\ ~isFetchingRef']_vars

\* a verify call has raised while the session was Verifying
C9_Witness ==
  /\ last = "verifyError"
  /\ SessionState = "Resolved"
  /\ feedback.message.key = "verifyError"
  /\ ~feedbackStale

\* C10: a verify response whose correctness field is absent or not a boolean
\* is treated as a verification error: the could-not-verify message is
\* stored, not the wrong-answer or the success message.
C10_NonBooleanIsVerifyError ==
  [][\A i \in DOMAIN verifyCalls : \A resp \in VerifyResponses :
       (VerifySettle(i, resp) /\ resp.outcome = "object" /\ resp.is_correct.t # "bool") =>
         feedback'.message.key = "verifyError"]_vars

\* C11: after a verification that returned a boolean verdict the stored
\* feedback matches it: false gives outcome Incorrect with the message that
\* embeds the answer the call was submitted with, true gives outcome Correct
\* with the fixed success message (no answer text); the answer a call is
\* submitted with is the one stored with the riddle on display, and riddle
\* and answer are only ever stored together from one fetch response.
C11_FeedbackMatchesVerdict ==
  /\ [][\A i \in DOMAIN verifyCalls : \A resp \in VerifyResponses :
          (VerifySettle(i, resp) /\ resp.outcome = "object" /\ resp.is_correct.t = "bool") =>
            IF resp.is_correct.v = "true"
            THEN /\ feedback'.type = "success"
                 /\ feedback'.message.key = "correctGuess"
                 /\ feedback'.message.answer = NULL
            ELSE /\ feedback'.type = "error"
                 /\ feedback'.message.key = "wrongGuess"
                 /\ feedback'.message.answer = verifyCalls[i].answer]_vars
  /\ [][Len(verifyCalls') > Len(verifyCalls) =>
          /\ TruthyStr(riddle)
          /\ verifyCalls'[Len(verifyCalls')].answer = answer]_vars
  /\ [][(answer' # answer \/ (riddle' # riddle /\ TruthyStr(riddle'))) =>
          \E resp \in FetchResponses :
            /\ fetchCalls # <<>>
            /\ resp.outcome = "object"
            /\ riddle' = resp.raetsel
            /\ answer' = resp.antwort]_vars

\* a verdict "incorrect" has been stored for the riddle on display
C11_Witness ==
  /\ last = "verifyOk"
  /\ SessionState = "Resolved"
  /\ ~feedbackStale
  /\ feedback.message.key = "wrongGuess"
  /\ feedback.message.answer = answer

C13_SelectionChangeRestarts ==
  [][(language' # language \/ selectedCategory' # selectedCategory) =>
       /\ ~isLoading
       /\ fetchCalls = <<>>
       /\ SessionState \in {"Presented", "Verifying", "Resolved", "Failed"}
       /\ riddleHistoryRef' = <<>>
       /\ SessionState' = "Loading"
       /\ Len(fetchCalls') = 1
       /\ ~fetchCalls'[1].prompt.hasExclusion
       /\ fetchCalls'[1].prompt.exclusion = <<>>
       /\ fetchCalls'[1].prompt.lang = language'
       /\ fetchCalls'[1].prompt.categoryDescription = selectedCategory']_vars

\* a selection change has cleared a history that had entries
C13_Witness ==
  /\ last = "fetchIssued"
  /\ TruthyStr(answer)
  /\ riddleHistoryRef = <<>>
  /\ language = "ru"
  /\ SessionState = "Loading"

\* C14: a verify call is only issued when no feedback is stored, and stored
\* feedback is only removed by a fetch being issued.
C14_NoVerifyAfterFeedback ==
  /\ [][Len(verifyCalls') > Len(verifyCalls) => feedback = NoFeedback]_vars
  /\ [][(feedback # NoFeedback /\ feedback' = NoFeedback) =>
          Len(fetchCalls') > Len(fetchCalls)]_vars
  /\ [](feedback # NoFeedback => ~SubmitEnabled /\ ~GuessInputEnabled)

\* feedback is on display next to a non-blank guess
C14_Witness ==
  /\ SessionState = "Resolved"
  /\ Trim(userGuess) # <<>>
  /\ verifyCalls = <<>>
  /\ ~SubmitEnabled

\* C15: while the session is Loading no utterance is queued or playing and
\* the speaking flag is off.
C15_NoSpeechWhileLoading ==
  SessionState = "Loading" => synth = <<>> /\ ~isSpeaking

\* C16: at most one utterance is queued or playing at any time.
C16_SingleUtterance == Len(synth) <= 1

\* C17: the prompt of every issued fetch excludes exactly the entries of the
\* history as it is when the fetch starts, in order and at most 10 of them,
\* and has the exclusion clause iff that history is not empty.
C17_PromptExcludesHistory ==
  [][Len(fetchCalls') > Len(fetchCalls) =>
       LET p == fetchCalls'[Len(fetchCalls')].prompt
       IN /\ Len(p.exclusion) = Len(riddleHistoryRef')
          /\ Len(p.exclusion) <= HistoryMax
          /\ \A i \in DOMAIN p.exclusion :
               p.exclusion[i] = <<"\"", riddleHistoryRef'[i], "\"">>
          /\ p.hasExclusion <=> riddleHistoryRef' # <<>>
          /\ (language' # language \/ selectedCategory' # selectedCategory
                \/ isInitialMount) => ~p.hasExclusion]_vars

\* a fetch is out whose prompt excludes a full history of 10 riddles
C17_Witness ==
  /\ last = "fetchIssued"
  /\ fetchCalls # <<>>
  /\ Len(fetchCalls[1].prompt.exclusion) = HistoryMax
  /\ fetchCalls[1].prompt.hasExclusion

\* C18: a successful fetch completion appends its riddle to the history
\* (keeping the last 10), a language/category change empties it, and nothing
\* else changes it; a failed fetch, a suppressed fetch request, a guess
\* submission, a verify completion and every speech event leave history,
\* riddle and answer as they were.  (The step is told by what the latest
\* step did, as the handlers record it in last.)
C18_HistoryFrame ==
  /\ [][last' = "fetchOk" =>
          LET h == Append(riddleHistoryRef, riddle')
              k == IF Len(h) < HistoryMax THEN Len(h) ELSE HistoryMax
          IN riddleHistoryRef' = [i \in 1..k |-> h[Len(h) - k + i]]]_vars
  /\ [][riddleHistoryRef' # riddleHistoryRef =>
          \/ last' = "fetchOk"
          \/ /\ language' # language \/ selectedCategory' # selectedCategory
             /\ riddleHistoryRef' = <<>>]_vars
  /\ [][(\/ last' = "fetchFailed"
         \/ /\ last' = "fetchDropped"
            /\ language' = language
            /\ selectedCategory' = selectedCategory
         \/ last' \in {"guessRejected", "verifyIssued"}
         \/ last' \in {"verifyOk", "verifyError"}
         \/ last' \in {"speakIgnored", "speakStopped", "speakQueued"}
         \/ last' \in {"speechStart", "speechEnd", "speechError", "speechCancelled"}) =>
          UNCHANGED <<riddleHistoryRef, riddle, answer>>]_vars
  /\ [][last' = "fetchDropped" => UNCHANGED <<riddle, answer>>]_vars

\* a fetch request was suppressed while the history had an entry
C18_Witness ==
  /\ last = "fetchDropped"
  /\ riddleHistoryRef # <<>>
  /\ selectedCategory = "lustig"

C20_ErrorAndRiddleExclusive ==
  /\ [](~(error # NoError /\ TruthyStr(riddle)))
  /\ []((isLoading \/ fetchCalls # <<>>) => error = NoError /\ riddle = NULL)
  /\ [](fetchCalls # <<>> <=> (isLoading /\ ~isInitialMount))
  /\ [][Len(fetchCalls') > Len(fetchCalls) =>
          /\ error' = NoError
          /\ riddle' = NULL
          /\ feedback' = NoFeedback
          /\ userGuess' = <<>>]_vars

\* a fetch is in flight that was issued over a presented riddle with
\* feedback (the answer of that riddle is still stored)
C20_Witness ==
  /\ last = "fetchIssued"
  /\ SessionState = "Loading"
  /\ TruthyStr(answer)
  /\ riddleHistoryRef # <<>>

====
